---- MODULE Spec2Model ----
(***************************************************************************)
(* GymPulse: occupancy sampling, series storage and source resolution.     *)
(*                                                                         *)
(* Three deployments ingest samples:                                       *)
(*   - the static updater   (update_data.js, src/unnamed/part_000:1-85)    *)
(*   - the standalone service (server.js, src/server/server.js:1-233)      *)
(*   - the embedded app     (App.tsx, src/unnamed/part_000:86-457, with    *)
(*                           gymService.ts, src/server/server.js:235-387)  *)
(* Each deployment has its own specification over the shared variables;    *)
(* the variables of the other deployments stay at their initial values.    *)
(*                                                                         *)
(* Time is in milliseconds, relative to an arbitrary epoch.                *)
(***************************************************************************)
EXTENDS Integers, Sequences, FiniteSets, TLC

VARIABLES
    now,        \* Date.now()
    ticks,      \* number of clock advances so far (bounded by MaxTicks)
    file,       \* gym_history.json: [exists, wellFormed, doc]
    u_pc,       \* updater: position in run() ("off": not deployed)
    u_db,       \* updater: the local `db` of run()
    u_i,        \* updater: index of the gym the for-loop is at
    u_runs,     \* updater: number of runs started (bounded by MaxRuns)
    faults,     \* environment: writes of the backing document that will still fail
    skews,      \* environment: times the clock will still move on between two reads of one continuation
    silent,     \* ids of the gyms whose endpoint never answers
    s_pc,       \* service: "boot", "up" or "crashed" ("off": not deployed)
    s_gyms,     \* service: the `gyms` array of configs
    s_db,       \* service: the in-memory `db`
    s_jobs,     \* service: the runJob() calls in flight, each at gyms[i]
    s_singles,  \* service: the fetchGymData(newGym) calls of POST /api/gyms in flight
    s_started,  \* service: number of runJob() calls started (bounded by MaxJobs)
    s_adds,     \* service: number of POST /api/gyms requests (bounded by MaxAdds)
    s_status,   \* service: status of the last POST /api/gyms answer
    s_timerAt,  \* service: when setInterval was called or last fired
    net_primary,  \* what GET ${SERVER_URL}/api/gyms answers: [status, data]
    net_snapshot, \* what GET ./gym_history.json answers: [status, data]
    a_storage,  \* localStorage[STORAGE_KEY]: null, or [wellFormed, data]
    r_pc,       \* loadGyms(): the tier it is at, "done" once it has returned
    r_result,   \* loadGyms(): the value returned, [data, source]
    r_log,      \* loadGyms(): the tiers consulted so far, in order
    autoBatch,  \* whether React batches the state updates of one async continuation
    a_gyms,     \* app: the `gyms` state
    dataMode,   \* app: the `dataMode` state
    isLoading,  \* app: the `isLoading` state
    a_batches,  \* app: the refreshAllGyms() calls in flight: [closure, results]
    a_singles,  \* app: the fetchGymData(config) calls of handleAddGym in flight
    a_timers,   \* app: the pending setTimeout(refreshAllGyms, 500): [closure, at]
    a_timerAt,  \* app: when the auto-refresh effect last called setInterval, or it last fired
    a_started,  \* app: number of refreshAllGyms() calls started (bounded by MaxBatches)
    a_adds,     \* app: number of handleAddGym calls (bounded by MaxAppAdds)
    c_data,     \* charts: the `data` prop (the history of the gym on display)
    c_at,       \* charts: Date.now() when the memoised chartData was computed, or null
    c_recent,   \* charts: chartData of RecentActivityChart
    c_dayAvg    \* charts: chartData of DayAverageChart

envVars == <<now, ticks, silent, faults, skews>>
updVars == <<u_pc, u_db, u_i, u_runs>>
srvVars == <<s_pc, s_gyms, s_db, s_jobs, s_singles, s_started, s_adds, s_status, s_timerAt>>
resVars == <<net_primary, net_snapshot, r_pc, r_result, r_log>>
appVars == <<a_storage, autoBatch, a_gyms, dataMode, isLoading, a_batches, a_singles,
             a_timers, a_timerAt, a_started, a_adds>>
chartVars == <<c_data, c_at, c_recent, c_dayAvg>>
otherU == <<srvVars, resVars, appVars, chartVars>>
otherS == <<updVars, resVars, appVars, chartVars>>
otherA == <<file, updVars, srvVars, chartVars>>
vars == <<envVars, file, updVars, srvVars, resVars, appVars, chartVars>>

----------------------------------------------------------------------------
(* Bounds of the model *)

\* most clock advances in one behaviour
MaxTicks == 2
\* most runs of the updater script in one behaviour
MaxRuns == 2
\* most runJob() calls of the service in one behaviour, the startup call included
MaxJobs == 2
\* most POST /api/gyms requests in one behaviour
MaxAdds == 1
\* most refreshAllGyms() calls of the app in one behaviour
MaxBatches == 2
\* most handleAddGym calls of the app in one behaviour
MaxAppAdds == 1
\* most failing writes of the backing document in one behaviour
MaxFaults == 1
\* most times the clock moves on between two reads of one continuation
MaxSkews == 1
\* The retention cap.  The source writes 5000 (part_000:74-75, part_000:178);
\* the model keeps the comparison and the slice and scales the number so that
\* a history reaches the cap within the bounds.  The scaled cap stays above
\* the length of the seed data (45 samples), as 5000 does.
MAX_RETAIN == 46

----------------------------------------------------------------------------
(* Program constants *)

\* part_000:66  `Date.now() - last.timestamp > 60000`
DEDUP_WINDOW == 60000
\* server.js:159, server.js:375, part_000:61  `maxCapacity: 300`
DEFAULT_CAPACITY == 300
\* server.js:229, part_000:205  `30 * 60 * 1000`
REFRESH_PERIOD == 1800000

\* part_000:197  `5 * 60 * 1000`
STALE_AFTER == 300000
\* part_000:213  `setTimeout(refreshAllGyms, 500)`
ADD_REFRESH_DELAY == 500
\* part_000:184  `lastUpdated: Date.now()`: milliseconds the clock has moved on
\* since `timestamp: Date.now()` of fetchGymData (server.js:378), when it has
CLOCK_LAG == 1
\* part_002:126  `24 * 60 * 60 * 1000`
ONE_DAY == 86400000

\* part_000:16-21 (GYMS), server.js:34-43 (gyms), server.js:242-250 (DEFAULT_GYMS)
GYMS == <<"glattpark">>

\* The epoch of the model is 20.06.2025 00:00 local time, the day of the first
\* seed sample.  A behaviour starts three days later.
T0 == 3 * ONE_DAY
\* How far the clock moves between two steps of the program.
ClockSteps == {30000, 40000, REFRESH_PERIOD}

----------------------------------------------------------------------------
(* Values *)

\* DataPoint (part_002:9-13)
DataPoint(t, v) == [timestamp |-> t, visitors |-> v, maxCapacity |-> DEFAULT_CAPACITY]

\* `null` / a value: a sequence of length 0 or 1
Null == <<>>
Some(x) == <<x>>

\* history.slice(-n)
SliceLast(h, n) == IF Len(h) > n THEN SubSeq(h, Len(h) - n + 1, Len(h)) ELSE h

\* arr[arr.length - 1]: undefined on an empty array
LastOf(h) == IF Len(h) = 0 THEN Null ELSE Some(h[Len(h)])

----------------------------------------------------------------------------
(* The upstream endpoint's answers and the Sampler *)

Digits == <<"0", "1", "2", "3", "4", "5", "6", "7", "8", "9">>
WhiteSpace == {" ", "\n", "\t"}

\* Response bodies the endpoint may send, as sequences of characters.
Bodies == { <<"7", "6", "\n">>, <<"-", "5">>, <<"a", "b", "c">> }

\* A response: the network call fails (reach = FALSE), or answers with a
\* status (ok) and a body (text).
NetError == [reach |-> FALSE, ok |-> FALSE, text |-> <<>>]
HttpError == [reach |-> TRUE, ok |-> FALSE, text |-> <<>>]
HttpOk(b) == [reach |-> TRUE, ok |-> TRUE, text |-> b]
Responses == {NetError, HttpError} \cup {HttpOk(b) : b \in Bodies}

RECURSIVE TrimStart(_)
TrimStart(s) ==
    IF s # <<>> /\ Head(s) \in WhiteSpace THEN TrimStart(Tail(s)) ELSE s

RECURSIVE TrimEnd(_)
TrimEnd(s) ==
    IF s # <<>> /\ s[Len(s)] \in WhiteSpace
    THEN TrimEnd(SubSeq(s, 1, Len(s) - 1)) ELSE s

\* String.prototype.trim
trim(s) == TrimEnd(TrimStart(s))

IsDigit(c) == \E i \in 1..10 : Digits[i] = c
DigitVal(c) == (CHOOSE i \in 1..10 : Digits[i] = c) - 1

\* the longest prefix of s made of decimal digits
RECURSIVE DigitPrefix(_)
DigitPrefix(s) ==
    IF s # <<>> /\ IsDigit(Head(s)) THEN <<Head(s)>> \o DigitPrefix(Tail(s)) ELSE <<>>

RECURSIVE DigitsValue(_, _)
DigitsValue(ds, acc) ==
    IF ds = <<>> THEN acc ELSE DigitsValue(Tail(ds), acc * 10 + DigitVal(Head(ds)))

NaN == [nan |-> TRUE, val |-> 0]

\* parseInt(s, 10): leading white space is skipped, an optional sign is read,
\* then the longest run of digits; what follows is ignored; no digit gives NaN.
parseInt(s) ==
    LET t == TrimStart(s)
        signed == t # <<>> /\ Head(t) \in {"+", "-"}
        neg == t # <<>> /\ Head(t) = "-"
        ds == DigitPrefix(IF signed THEN Tail(t) ELSE t)
    IN  IF ds = <<>> THEN NaN
        ELSE [nan |-> FALSE,
              val |-> IF neg THEN 0 - DigitsValue(ds, 0) ELSE DigitsValue(ds, 0)]

\* fetchVisitors(url) of the updater: the visitor count, or null
fetchVisitors(resp) ==
    IF ~resp.reach THEN Null                    \* fetch rejects: catch
    ELSE IF ~resp.ok THEN Null                  \* throw new Error(res.statusText): catch
    ELSE LET val == parseInt(trim(resp.text))
         IN  IF val.nan THEN Null ELSE Some(val.val)

----------------------------------------------------------------------------
(* The backing document gym_history.json *)

NoDb == [id \in {} |-> <<>>]
MissingFile == [exists |-> FALSE, wellFormed |-> FALSE, doc |-> NoDb]
CorruptFile == [exists |-> TRUE, wellFormed |-> FALSE, doc |-> NoDb]
FileOf(db) == [exists |-> TRUE, wellFormed |-> TRUE, doc |-> db]

\* n samples taken one refresh period apart, the last one a period before T0
OldHistory(n) == [i \in 1..n |-> DataPoint(T0 - (n - i + 1) * REFRESH_PERIOD, 60 + i)]

\* Histories a backing document may hold when a behaviour starts: none, one
\* sample taken at T0 (the spec's 78@t0), and histories at and above the cap
\* (the service writes the same document and does not trim it).
InitHistories ==
    { <<>>, <<DataPoint(T0, 78)>>, OldHistory(MAX_RETAIN), OldHistory(MAX_RETAIN + 1) }

InitFiles ==
    {MissingFile, CorruptFile, FileOf(NoDb)}
    \cup {FileOf([id \in {GYMS[1]} |-> h]) : h \in InitHistories}

\* db[id] || []
HistoryOf(db, id) == IF id \in DOMAIN db THEN db[id] ELSE <<>>

\* db[id] = h
SetHistory(db, id, h) == [x \in DOMAIN db \cup {id} |-> IF x = id THEN h ELSE db[x]]

\* fs.writeFileSync either returns (TRUE) or throws (FALSE)
WriteOutcomes == IF faults > 0 THEN BOOLEAN ELSE {TRUE}

\* By how much the clock has moved on between two Date.now() of one continuation
ClockLags == IF skews > 0 THEN {0, CLOCK_LAG} ELSE {0}

\* What a write that threw leaves of the document f: f itself (the file could
\* not be opened) or a truncated text (it was opened and not written out)
FailedWrite(f) == {f, CorruptFile}

----------------------------------------------------------------------------
(* The clock *)

Tick ==
    /\ ticks < MaxTicks
    /\ \E d \in ClockSteps : now' = now + d
    /\ ticks' = ticks + 1
    /\ UNCHANGED <<silent, faults, skews, file, updVars, srvVars, resVars, appVars, chartVars>>

----------------------------------------------------------------------------
(* The static updater: run() of update_data.js *)

\* run(), step 1: load the existing data
UpdLoad ==
    /\ u_pc = "idle"
    /\ u_runs < MaxRuns
    /\ u_db' = IF file.exists /\ file.wellFormed THEN file.doc ELSE NoDb
    /\ u_i' = 1
    /\ u_pc' = IF Len(GYMS) = 0 THEN "save" ELSE "fetch"
    /\ u_runs' = u_runs + 1
    /\ UNCHANGED <<envVars, file, otherU>>

\* The dedup test of run(): push unless a last sample is at most 60000 ms old
UpdAccepts(h, t) == Len(h) = 0 \/ t - h[Len(h)].timestamp > DEDUP_WINDOW

\* run(), the body of the loop once fetchVisitors has answered for one gym
UpdStore(db, id, visitors, t) ==
    LET h0 == HistoryOf(db, id)
        h1 == IF UpdAccepts(h0, t) THEN Append(h0, DataPoint(t, visitors)) ELSE h0
        h2 == IF Len(h1) > MAX_RETAIN THEN SliceLast(h1, MAX_RETAIN) ELSE h1
    IN  SetHistory(db, id, h2)

\* run(), step 2: one iteration of `for (const gym of GYMS)`
UpdFetch ==
    /\ u_pc = "fetch"
    /\ \E resp \in Responses :
         LET visitors == fetchVisitors(resp)
         IN  u_db' = IF visitors # Null
                     THEN UpdStore(u_db, GYMS[u_i], visitors[1], now)
                     ELSE u_db
    /\ u_i' = u_i + 1
    /\ u_pc' = IF u_i = Len(GYMS) THEN "save" ELSE "fetch"
    /\ UNCHANGED <<envVars, file, u_runs, otherU>>

\* run(), step 3: fs.writeFileSync(DATA_FILE, JSON.stringify(db))
UpdSave ==
    /\ u_pc = "save"
    /\ \E ok \in WriteOutcomes :
         IF ok
         THEN /\ file' = FileOf(u_db)
              /\ faults' = faults
         ELSE \* the exception rejects run(): the process ends, nothing is written
              /\ file' \in FailedWrite(file)
              /\ faults' = faults - 1
    /\ u_pc' = "idle"
    /\ UNCHANGED <<now, ticks, silent, skews, u_db, u_i, u_runs, otherU>>

\* The updater before its first run ("idle"), or not deployed ("off")
UpdAt(pc) ==
    /\ u_pc = pc
    /\ u_db = NoDb
    /\ u_i = 1
    /\ u_runs = 0

\* The service as `node server.js` starts ("boot"), or not deployed ("off")
SrvAt(pc) ==
    /\ s_pc = pc
    /\ s_gyms = <<>>
    /\ s_db = NoDb
    /\ s_jobs = <<>>
    /\ s_singles = <<>>
    /\ s_started = 0
    /\ s_adds = 0
    /\ s_status = 0
    /\ s_timerAt = 0

\* The app is not deployed
AppOff ==
    /\ net_primary = [status |-> "unreachable", data |-> <<>>]
    /\ net_snapshot = [status |-> "unreachable", data |-> NoDb]
    /\ a_storage = Null
    /\ r_pc = "off"
    /\ r_result = [data |-> <<>>, source |-> "none"]
    /\ r_log = <<>>
    /\ autoBatch = TRUE
    /\ a_gyms = <<>>
    /\ dataMode = "local"
    /\ isLoading = FALSE
    /\ a_batches = <<>>
    /\ a_singles = <<>>
    /\ a_timers = <<>>
    /\ a_timerAt = 0
    /\ a_started = 0
    /\ a_adds = 0

\* No gym is on display
ChartsOff ==
    /\ c_data = <<>>
    /\ c_at = Null
    /\ c_recent = <<>>
    /\ c_dayAvg = <<>>

InitUpdater ==
    /\ now = T0
    /\ ticks = 0
    /\ faults = 0
    /\ skews = 0
    /\ ChartsOff
    /\ silent = {}
    /\ file \in InitFiles
    /\ UpdAt("idle")
    /\ SrvAt("off")
    /\ AppOff

NextUpdater == Tick \/ UpdLoad \/ UpdFetch \/ UpdSave

SpecUpdater == InitUpdater /\ [][NextUpdater]_vars

----------------------------------------------------------------------------
(* The standalone service: server.js *)

\* RAW_SEED_DATA, one tuple <<day, month, year, hour, minute, visitors>> a line
RAW_SEED_DATA == <<
    <<20, 6, 2025, 11, 14, 78>>, <<20, 6, 2025, 11, 33, 76>>, <<20, 6, 2025, 12, 3, 90>>,
    <<20, 6, 2025, 13, 11, 130>>, <<20, 6, 2025, 13, 40, 96>>, <<20, 6, 2025, 14, 10, 65>>,
    <<20, 6, 2025, 14, 40, 57>>, <<20, 6, 2025, 15, 10, 67>>, <<20, 6, 2025, 15, 39, 68>>,
    <<20, 6, 2025, 16, 9, 70>>, <<20, 6, 2025, 16, 39, 80>>, <<20, 6, 2025, 17, 9, 85>>,
    <<20, 6, 2025, 17, 38, 107>>, <<20, 6, 2025, 18, 8, 122>>, <<20, 6, 2025, 18, 38, 126>>,
    <<20, 6, 2025, 19, 8, 109>>, <<20, 6, 2025, 19, 38, 110>>, <<20, 6, 2025, 20, 7, 105>>,
    <<20, 6, 2025, 20, 37, 94>>, <<20, 6, 2025, 21, 7, 76>>, <<20, 6, 2025, 21, 31, 57>>,
    <<20, 6, 2025, 21, 36, 57>>, <<21, 6, 2025, 8, 4, 3>>, <<21, 6, 2025, 8, 13, 3>>,
    <<21, 6, 2025, 8, 48, 69>>, <<21, 6, 2025, 9, 18, 95>>, <<21, 6, 2025, 9, 47, 120>>,
    <<21, 6, 2025, 10, 17, 170>>, <<21, 6, 2025, 10, 47, 184>>, <<21, 6, 2025, 11, 17, 169>>,
    <<21, 6, 2025, 11, 46, 148>>, <<21, 6, 2025, 12, 16, 149>>, <<21, 6, 2025, 12, 46, 146>>,
    <<21, 6, 2025, 13, 16, 135>>, <<21, 6, 2025, 13, 46, 118>>, <<21, 6, 2025, 14, 56, 80>>,
    <<21, 6, 2025, 15, 25, 76>>, <<21, 6, 2025, 15, 55, 67>>, <<21, 6, 2025, 16, 25, 68>>,
    <<21, 6, 2025, 16, 55, 78>>, <<21, 6, 2025, 17, 24, 79>>, <<21, 6, 2025, 17, 54, 79>>,
    <<21, 6, 2025, 18, 24, 63>>, <<21, 6, 2025, 18, 54, 65>>, <<21, 6, 2025, 19, 24, 65>>
    >>

\* parseCustomDate("DD.MM.YYYY HH:mm"): local time to epoch milliseconds.
\* All seed lines are of June 2025, so the day of the month decides the date.
parseCustomDate(l) == (((l[1] - 20) * 24 + l[4]) * 60 + l[5]) * 60000

\* Array.prototype.sort((a, b) => a.timestamp - b.timestamp): stable
RECURSIVE InsertByTimestamp(_, _)
InsertByTimestamp(h, p) ==
    IF h = <<>> THEN <<p>>
    ELSE IF h[Len(h)].timestamp <= p.timestamp THEN Append(h, p)
    ELSE Append(InsertByTimestamp(SubSeq(h, 1, Len(h) - 1), p), h[Len(h)])

RECURSIVE SortByTimestamp(_)
SortByTimestamp(h) ==
    IF h = <<>> THEN <<>>
    ELSE InsertByTimestamp(SortByTimestamp(SubSeq(h, 1, Len(h) - 1)), h[Len(h)])

\* initDB(), the seed branch: one DataPoint a line, sorted by timestamp
seedHistory ==
    SortByTimestamp([i \in 1..Len(RAW_SEED_DATA) |->
        DataPoint(parseCustomDate(RAW_SEED_DATA[i]), RAW_SEED_DATA[i][6])])

\* the initial value of `gyms`
DefaultGym == [id |-> GYMS[1], name |-> "n", url |-> "u"]

\* Bodies of POST /api/gyms: a new gym, a gym with the id of a tracked one, and
\* bodies where the name, the id or the url is missing ("")
AddBodies ==
    { [id |-> "g2", name |-> "n", url |-> "u"],
      [id |-> GYMS[1], name |-> "n", url |-> "u"],
      [id |-> "g2", name |-> "", url |-> "u"],
      [id |-> "", name |-> "n", url |-> "u"],
      [id |-> "g2", name |-> "n", url |-> ""] }

RemoveAt(s, k) == SubSeq(s, 1, k - 1) \o SubSeq(s, k + 1, Len(s))

\* fetchGymData(gymConfig) of the service up to `const dataPoint`: the sample
\* taken at time t, or null when the catch block is entered
SrvSample(resp, t) ==
    IF ~resp.reach THEN Null                    \* fetch rejects
    ELSE IF ~resp.ok THEN Null                  \* throw new Error(response.statusText)
    ELSE LET visitors == parseInt(trim(resp.text))
         IN  IF visitors.nan THEN Null          \* throw new Error(`Invalid number`)
             ELSE Some(DataPoint(t, visitors.val))

\* fetchGymData(gymConfig) of the service, "Save to DB": db[id].push(dataPoint)
SrvPush(db, id, dataPoint) == SetHistory(db, id, Append(HistoryOf(db, id), dataPoint))

\* A new runJob() call: it awaits fetchGymData(gyms[0])
NewJob == [i |-> 1]

\* `node server.js`: initDB(), then runJob(), setInterval and listen
SrvBoot ==
    /\ s_pc = "boot"
    /\ \E ok \in IF file.exists THEN {TRUE} ELSE WriteOutcomes :
         IF file.exists /\ ~file.wellFormed
         THEN \* JSON.parse(raw) throws at the top level of the module
              /\ s_pc' = "crashed"
              /\ UNCHANGED <<faults, file, s_gyms, s_db, s_jobs, s_started, s_timerAt>>
         ELSE IF ~ok
         THEN \* saveDB() of the seed data throws at the top level of the module
              /\ s_pc' = "crashed"
              /\ file' \in FailedWrite(file)
              /\ faults' = faults - 1
              /\ UNCHANGED <<s_gyms, s_db, s_jobs, s_started, s_timerAt>>
         ELSE /\ s_pc' = "up"
              /\ s_timerAt' = now
              /\ s_gyms' = <<DefaultGym>>
              /\ s_db' = IF file.exists THEN file.doc
                         ELSE [id \in {GYMS[1]} |-> seedHistory]
              /\ file' = IF file.exists THEN file ELSE FileOf(s_db')
              /\ s_jobs' = <<NewJob>>
              /\ s_started' = 1
              /\ faults' = faults
    /\ UNCHANGED <<now, ticks, silent, skews, otherS, s_singles, s_adds, s_status>>

\* setInterval(runJob, 30 * 60 * 1000) fires
SrvTimer ==
    /\ s_pc = "up"
    /\ now >= s_timerAt + REFRESH_PERIOD
    /\ s_started < MaxJobs
    /\ s_jobs' = Append(s_jobs, NewJob)
    /\ s_started' = s_started + 1
    /\ s_timerAt' = now
    /\ UNCHANGED <<envVars, file, otherS, s_pc, s_gyms, s_db, s_singles, s_adds, s_status>>

\* POST /api/refresh: await runJob()
SrvRefresh ==
    /\ s_pc = "up"
    /\ s_started < MaxJobs
    /\ s_jobs' = Append(s_jobs, NewJob)
    /\ s_started' = s_started + 1
    /\ UNCHANGED <<envVars, file, otherS, s_pc, s_gyms, s_db, s_singles, s_adds, s_status,
                   s_timerAt>>

\* The fetch a runJob() call awaits settles: the rest of fetchGymData, then
\* the next iteration of `for (const gym of gyms)` or the end of the job
SrvFetchDone(k) ==
    /\ s_pc = "up"
    /\ k \in 1..Len(s_jobs)
    /\ LET gym == s_gyms[s_jobs[k].i]
       IN  /\ gym.id \notin silent
           /\ \E resp \in Responses :
                LET dataPoint == SrvSample(resp, now)
                IN  IF dataPoint # Null
                    THEN /\ s_db' = SrvPush(s_db, gym.id, dataPoint[1])
                         /\ \E ok \in WriteOutcomes :                \* saveDB()
                              IF ok
                              THEN /\ file' = FileOf(s_db')
                                   /\ faults' = faults
                              ELSE \* caught by fetchGymData's catch
                                   /\ file' \in FailedWrite(file)
                                   /\ faults' = faults - 1
                    ELSE UNCHANGED <<s_db, file, faults>>
    /\ s_jobs' = IF s_jobs[k].i < Len(s_gyms)
                 THEN [s_jobs EXCEPT ![k].i = @ + 1]
                 ELSE RemoveAt(s_jobs, k)
    /\ UNCHANGED <<now, ticks, silent, skews, otherS, s_pc, s_gyms, s_singles, s_started, s_adds,
                   s_status, s_timerAt>>

\* POST /api/gyms
SrvAddGym ==
    /\ s_pc = "up"
    /\ s_adds < MaxAdds
    /\ s_adds' = s_adds + 1
    /\ \E newGym \in AddBodies :
         IF newGym.id = "" \/ newGym.url = ""
         THEN /\ s_status' = 400
              /\ UNCHANGED <<s_gyms, s_singles>>
         ELSE /\ s_gyms' = Append(s_gyms, newGym)
              /\ s_singles' = Append(s_singles, newGym)      \* fetchGymData(newGym)
              /\ s_status' = 200
    /\ UNCHANGED <<envVars, file, otherS, s_pc, s_db, s_jobs, s_started, s_timerAt>>

\* The fetch of a POST /api/gyms "Initial fetch" settles
SrvSingleDone(k) ==
    /\ s_pc = "up"
    /\ k \in 1..Len(s_singles)
    /\ LET gym == s_singles[k]
       IN  /\ gym.id \notin silent
           /\ \E resp \in Responses :
                LET dataPoint == SrvSample(resp, now)
                IN  IF dataPoint # Null
                    THEN /\ s_db' = SrvPush(s_db, gym.id, dataPoint[1])
                         /\ \E ok \in WriteOutcomes :                \* saveDB()
                              IF ok
                              THEN /\ file' = FileOf(s_db')
                                   /\ faults' = faults
                              ELSE \* caught by fetchGymData's catch
                                   /\ file' \in FailedWrite(file)
                                   /\ faults' = faults - 1
                    ELSE UNCHANGED <<s_db, file, faults>>
    /\ s_singles' = RemoveAt(s_singles, k)
    /\ UNCHANGED <<now, ticks, silent, skews, otherS, s_pc, s_gyms, s_jobs, s_started, s_adds,
                   s_status, s_timerAt>>

\* GET /api/gyms: the structure the frontend expects, for the configs `gyms`
\* and the histories `db`
ViewOf(gyms, db) ==
    [k \in 1..Len(gyms) |->
        LET history == HistoryOf(db, gyms[k].id)
            current == LastOf(history)
        IN  [config |-> gyms[k],
             history |-> history,
             current |-> current,
             lastUpdated |-> IF current # Null THEN current[1].timestamp ELSE 0]]

\* what GET /api/gyms answers now
SrvView == ViewOf(s_gyms, s_db)

\* The documents the service may find when it starts
SrvInitFiles ==
    {MissingFile, CorruptFile, FileOf(NoDb)}
    \cup {FileOf([id \in {GYMS[1]} |-> h]) : h \in {<<DataPoint(T0, 78)>>, OldHistory(MAX_RETAIN)}}

InitService ==
    /\ now = T0
    /\ ticks = 0
    /\ faults = 0
    /\ skews = 0
    /\ ChartsOff
    /\ silent \in SUBSET {GYMS[1]}
    /\ file \in SrvInitFiles
    /\ UpdAt("off")
    /\ SrvAt("boot")
    /\ AppOff

NextService ==
    \/ Tick
    \/ SrvBoot
    \/ SrvTimer
    \/ SrvRefresh
    \/ \E k \in 1..MaxJobs : SrvFetchDone(k)
    \/ SrvAddGym
    \/ \E k \in 1..MaxAdds : SrvSingleDone(k)

SpecService == InitService /\ [][NextService]_vars

\* The service with an endpoint that may never answer.  An endpoint that is
\* not silent answers every request in the end, and the event loop then runs
\* the continuation of the fetch.
InitServiceFair ==
    /\ now = T0
    /\ ticks = 0
    /\ faults = 0
    /\ skews = 0
    /\ ChartsOff
    /\ silent \in SUBSET {GYMS[1]}
    /\ file \in {MissingFile, FileOf([id \in {GYMS[1]} |-> <<DataPoint(T0, 78)>>])}
    /\ UpdAt("off")
    /\ SrvAt("boot")
    /\ AppOff

FairSpecService ==
    /\ InitServiceFair
    /\ [][NextService]_vars
    /\ WF_vars(SrvBoot)
    /\ \A k \in 1..MaxJobs : WF_vars(SrvFetchDone(k))
    /\ \A k \in 1..MaxAdds : WF_vars(SrvSingleDone(k))

\* The updater or the service on a disk where writes may fail
InitPersistFault ==
    /\ now = T0
    /\ ticks = 0
    /\ faults = MaxFaults
    /\ skews = 0
    /\ ChartsOff
    /\ silent = {}
    /\ file \in {MissingFile, FileOf([id \in {GYMS[1]} |-> <<DataPoint(T0, 78)>>])}
    /\ \/ UpdAt("idle") /\ SrvAt("off")
       \/ UpdAt("off") /\ SrvAt("boot")
    /\ AppOff

\* The updater's runs; the service's startup and periodic jobs.  No request
\* reaches the service.
NextPersistFault ==
    \/ NextUpdater
    \/ SrvBoot
    \/ SrvTimer
    \/ \E k \in 1..MaxJobs : SrvFetchDone(k)

SpecPersistFault == InitPersistFault /\ [][NextPersistFault]_vars

----------------------------------------------------------------------------
(* The Source Resolver: loadGyms() of gymService.ts *)

\* DEFAULT_GYMS of gymService.ts
DEFAULT_GYMS == <<[id |-> GYMS[1]]>>

\* parseRawData(RAW_DATA_GLATTPARK): data/initialData.ts is not among the
\* sources; the built-in seed is taken to be the service's seed data.
realHistory == seedHistory

\* What an HTTP read may answer: the fetch rejects ("unreachable"), the status
\* is not a success ("nonok"), response.json() rejects ("badjson"), or a
\* document arrives ("ok").
FailedReads == {"unreachable", "nonok", "badjson"}

\* loadGyms(), tier 2: the GymData built from the static document
CloudData(historyDb) ==
    [k \in 1..Len(DEFAULT_GYMS) |->
        LET history == HistoryOf(historyDb, DEFAULT_GYMS[k].id)
            lastPoint == LastOf(history)
        IN  [config |-> DEFAULT_GYMS[k],
             history |-> history,
             current |-> lastPoint,
             lastUpdated |-> IF lastPoint # Null THEN lastPoint[1].timestamp ELSE 0]]

\* loadGyms(), tier 4: the GymData built from the seed, at time t
SeedData(t) ==
    [k \in 1..Len(DEFAULT_GYMS) |->
        LET history == IF DEFAULT_GYMS[k].id = "glattpark" THEN realHistory ELSE <<>>
            lastPoint == LastOf(history)
        IN  [config |-> DEFAULT_GYMS[k],
             history |-> history,
             current |-> lastPoint,
             lastUpdated |-> IF lastPoint # Null THEN lastPoint[1].timestamp ELSE t]]

\* Tier 1 without its `return`: the primary's data is taken, and loadGyms
\* goes on to the static file all the same
ResPrimaryFallsThrough ==
    /\ r_pc = "primary"
    /\ r_log' = Append(r_log, "primary")
    /\ r_result' = IF net_primary.status = "ok"
                   THEN [data |-> net_primary.data, source |-> "server"]
                   ELSE r_result
    /\ r_pc' = "snapshot"
    /\ UNCHANGED <<envVars, otherA, appVars, net_primary, net_snapshot>>

\* loadGyms(), "1. Try fetching from Local Background Server"
ResPrimary ==
    /\ r_pc = "primary"
    /\ r_log' = Append(r_log, "primary")
    /\ IF net_primary.status = "ok"
       THEN /\ r_result' = [data |-> net_primary.data, source |-> "server"]
            /\ r_pc' = "done"
       ELSE /\ r_pc' = "snapshot"
            /\ UNCHANGED r_result
    /\ UNCHANGED <<envVars, otherA, appVars, net_primary, net_snapshot>>

\* loadGyms(), "2. Try fetching from Static Cloud File"
ResSnapshot ==
    /\ r_pc = "snapshot"
    /\ r_log' = Append(r_log, "snapshot")
    /\ IF net_snapshot.status = "ok"
       THEN /\ r_result' = [data |-> CloudData(net_snapshot.data), source |-> "cloud"]
            /\ r_pc' = "done"
       ELSE /\ r_pc' = "cache"
            /\ UNCHANGED r_result
    /\ UNCHANGED <<envVars, otherA, appVars, net_primary, net_snapshot>>

\* Tier 3 without its try/catch: JSON.parse of a malformed value throws out
\* of loadGyms
ResCacheUnguarded ==
    /\ r_pc = "cache"
    /\ r_log' = Append(r_log, "cache")
    /\ IF a_storage = Null
       THEN /\ r_pc' = "seed"
            /\ UNCHANGED r_result
       ELSE IF a_storage[1].wellFormed
       THEN /\ r_result' = [data |-> a_storage[1].data, source |-> "local"]
            /\ r_pc' = "done"
       ELSE /\ r_pc' = "threw"
            /\ UNCHANGED r_result
    /\ UNCHANGED <<envVars, otherA, appVars, net_primary, net_snapshot>>

\* loadGyms(), "3. Fallback to Local Storage"
ResCache ==
    /\ r_pc = "cache"
    /\ r_log' = Append(r_log, "cache")
    /\ IF a_storage # Null /\ a_storage[1].wellFormed
       THEN /\ r_result' = [data |-> a_storage[1].data, source |-> "local"]
            /\ r_pc' = "done"
       ELSE /\ r_pc' = "seed"         \* nothing stored, or JSON.parse throws
            /\ UNCHANGED r_result
    /\ UNCHANGED <<envVars, otherA, appVars, net_primary, net_snapshot>>

\* loadGyms(), "4. Seed default data"
ResSeed ==
    /\ r_pc = "seed"
    /\ r_log' = Append(r_log, "seed")
    /\ r_result' = [data |-> SeedData(now), source |-> "local"]
    /\ r_pc' = "done"
    /\ UNCHANGED <<envVars, otherA, appVars, net_primary, net_snapshot>>

----------------------------------------------------------------------------
(* The embedded app: App.tsx *)

\* fetchGymData(config) of gymService.ts: the sample taken at time t, or null
fetchGymData(resp, t) ==
    IF ~resp.reach THEN Null                    \* fetch rejects
    ELSE IF ~resp.ok THEN Null                  \* throw new Error(`API Error`)
    ELSE LET visitors == parseInt(trim(resp.text))
         IN  IF visitors.nan THEN Null          \* throw new Error(`Invalid data received`)
             ELSE Some(DataPoint(t, visitors.val))

\* The map callback without `current: newDataPoint`: the sample is appended
\* to the history only
RefreshedKeepsCurrent(gym, newDataPoint, t) ==
    IF newDataPoint = Null THEN gym
    ELSE [gym EXCEPT !.history = SliceLast(Append(gym.history, newDataPoint[1]), MAX_RETAIN),
                     !.lastUpdated = t]

\* The callback of gyms.map in refreshAllGyms, for one gym of the closure
Refreshed(gym, newDataPoint, t) ==
    IF newDataPoint = Null THEN gym
    ELSE [gym EXCEPT !.current = newDataPoint,
                     !.history = SliceLast(Append(gym.history, newDataPoint[1]), MAX_RETAIN),
                     !.lastUpdated = t]

\* The updater function of setGyms in handleAddGym's .then callback
SingleApplied(prev, config, data, t) ==
    [k \in 1..Len(prev) |->
        IF prev[k].config.id = config.id
        THEN [prev[k] EXCEPT !.current = data, !.history = <<data[1]>>, !.lastUpdated = t]
        ELSE prev[k]]

\* "Check if current data is stale (> 5 mins)"
IsStale(gyms, t) ==
    \E k \in 1..Len(gyms) : gyms[k].current = Null \/ t - gyms[k].lastUpdated > STALE_AFTER

\* The auto-refresh effect calls refreshAllGyms() when it runs
AutoRefreshes(gyms, loading, t) == ~loading /\ Len(gyms) > 0 /\ IsStale(gyms, t)

\* The persistence effect: what localStorage holds after it has run
Persisted(gyms, mode, storage) ==
    IF Len(gyms) > 0 /\ mode = "local"
    THEN Some([wellFormed |-> TRUE, data |-> gyms])       \* saveGyms(gyms)
    ELSE storage

\* A new refreshAllGyms() call over the gyms of its closure: every fetch pending
NewBatch(closure) == [closure |-> closure, results |-> [k \in 1..Len(closure) |-> Null]]

\* The init effect once loadGyms() has resolved: setGyms(data), setDataMode(source),
\* then the effects of the render(s) that follow
AppMount ==
    /\ r_pc = "done"
    /\ r_pc' = "applied"
    /\ a_gyms' = r_result.data
    /\ dataMode' = r_result.source
    /\ a_storage' =
         IF autoBatch THEN Persisted(r_result.data, r_result.source, a_storage)
         ELSE Persisted(r_result.data, r_result.source,
                        Persisted(r_result.data, dataMode, a_storage))
    /\ IF AutoRefreshes(r_result.data, isLoading, now)
       THEN /\ a_batches' = Append(a_batches, NewBatch(r_result.data))
            /\ a_started' = a_started + 1
            /\ isLoading' = TRUE
       ELSE UNCHANGED <<a_batches, a_started, isLoading>>
    /\ a_timerAt' = now
    /\ UNCHANGED <<envVars, otherA, net_primary, net_snapshot, r_result, r_log,
                   autoBatch, a_singles, a_timers, a_adds>>

\* The setInterval callback of the auto-refresh effect: refreshAllGyms()
AppInterval ==
    /\ r_pc = "applied"
    /\ now >= a_timerAt + REFRESH_PERIOD
    /\ a_started < MaxBatches
    /\ a_batches' = Append(a_batches, NewBatch(a_gyms))
    /\ a_started' = a_started + 1
    /\ isLoading' = TRUE
    /\ a_timerAt' = now
    /\ UNCHANGED <<envVars, otherA, resVars, a_storage, autoBatch, a_gyms, dataMode,
                   a_singles, a_timers, a_adds>>

\* The refresh button: onClick={refreshAllGyms} disabled={isLoading}
AppRefreshClick ==
    /\ r_pc = "applied"
    /\ ~isLoading
    /\ a_started < MaxBatches
    /\ a_batches' = Append(a_batches, NewBatch(a_gyms))
    /\ a_started' = a_started + 1
    /\ isLoading' = TRUE
    /\ UNCHANGED <<envVars, otherA, resVars, a_storage, autoBatch, a_gyms, dataMode,
                   a_singles, a_timers, a_timerAt, a_adds>>

\* setTimeout(refreshAllGyms, 500) of handleAddGym fires: the refreshAllGyms of
\* the render handleAddGym was called in
AppTimeout(k) ==
    /\ r_pc = "applied"
    /\ k \in 1..Len(a_timers)
    /\ now >= a_timers[k].at + ADD_REFRESH_DELAY
    /\ a_started < MaxBatches
    /\ a_batches' = Append(a_batches, NewBatch(a_timers[k].closure))
    /\ a_timers' = RemoveAt(a_timers, k)
    /\ a_started' = a_started + 1
    /\ isLoading' = TRUE
    /\ UNCHANGED <<envVars, otherA, resVars, a_storage, autoBatch, a_gyms, dataMode,
                   a_singles, a_timerAt, a_adds>>

\* handleAddGym(config), with the id AddGymModal gives: Date.now().toString()
AppAddGym ==
    /\ r_pc = "applied"
    /\ a_adds < MaxAppAdds
    /\ a_adds' = a_adds + 1
    /\ LET config == [id |-> ToString(now)]
           newGym == [config |-> config, history |-> <<>>, current |-> Null, lastUpdated |-> 0]
           gyms2 == Append(a_gyms, newGym)
       IN  IF dataMode = "server"
           THEN \* await addGymToServer(config); setTimeout(refreshAllGyms, 500)
                /\ a_timers' = Append(a_timers, [closure |-> a_gyms, at |-> now])
                /\ UNCHANGED <<a_gyms, a_singles, a_storage, a_batches, a_started, isLoading,
                               a_timerAt>>
           ELSE /\ a_gyms' = gyms2
                /\ a_singles' = Append(a_singles, config)
                /\ a_storage' = Persisted(gyms2, dataMode, a_storage)
                /\ IF AutoRefreshes(gyms2, isLoading, now)
                   THEN /\ a_started < MaxBatches
                        /\ a_batches' = Append(a_batches, NewBatch(gyms2))
                        /\ a_started' = a_started + 1
                        /\ isLoading' = TRUE
                   ELSE UNCHANGED <<a_batches, a_started, isLoading>>
                /\ a_timerAt' = now
                /\ UNCHANGED a_timers
    /\ UNCHANGED <<envVars, otherA, resVars, autoBatch, dataMode>>

\* The fetch of handleAddGym settles: the .then callback, then the effects
AppSingleDone(k) ==
    /\ r_pc = "applied"
    /\ k \in 1..Len(a_singles)
    /\ a_singles[k].id \notin silent
    /\ a_singles' = RemoveAt(a_singles, k)
    /\ \E resp \in Responses :
         LET data == fetchGymData(resp, now)
         IN  IF data = Null
             THEN UNCHANGED <<now, skews, a_gyms, a_storage, a_batches, a_started, isLoading,
                              a_timerAt>>
             ELSE \E lag \in ClockLags :
                  \* `lastUpdated: Date.now()` is read when the updater function runs
                  LET t == now + lag
                      gyms2 == SingleApplied(a_gyms, a_singles[k], data, t)
                  IN  /\ now' = t
                      /\ skews' = IF lag > 0 THEN skews - 1 ELSE skews
                      /\ a_gyms' = gyms2
                      /\ a_timerAt' = t
                      /\ a_storage' = Persisted(gyms2, dataMode, a_storage)
                      /\ IF AutoRefreshes(gyms2, isLoading, t)
                         THEN /\ a_started < MaxBatches
                              /\ a_batches' = Append(a_batches, NewBatch(gyms2))
                              /\ a_started' = a_started + 1
                              /\ isLoading' = TRUE
                         ELSE UNCHANGED <<a_batches, a_started, isLoading>>
    /\ UNCHANGED <<ticks, silent, faults, otherA, resVars, autoBatch, dataMode, a_timers, a_adds>>

\* One fetch of a refreshAllGyms() call settles: the map callback of that gym.
\* When it is the last one, Promise.all resolves: setGyms(updatedGyms),
\* setIsLoading(false), then the effects.
AppFetchDone(b, g) ==
    /\ r_pc = "applied"
    /\ b \in 1..Len(a_batches)
    /\ g \in 1..Len(a_batches[b].closure)
    /\ a_batches[b].results[g] = Null
    /\ a_batches[b].closure[g].config.id \notin silent
    /\ \E resp \in Responses :
       \E lag \in IF fetchGymData(resp, now) = Null THEN {0} ELSE ClockLags :
         \* `lastUpdated: Date.now()` is read after fetchGymData has returned
         LET t == now + lag
             gym == a_batches[b].closure[g]
             results == [a_batches[b].results EXCEPT
                            ![g] = Some(Refreshed(gym, fetchGymData(resp, now), t))]
             updatedGyms == [k \in 1..Len(results) |-> results[k][1]]
             others == RemoveAt(a_batches, b)
             \* isLoading as the auto-refresh effect sees it after setGyms
             loading == IF autoBatch THEN FALSE ELSE isLoading
         IN  /\ now' = t
             /\ skews' = IF lag > 0 THEN skews - 1 ELSE skews
             /\ IF \E k \in 1..Len(results) : results[k] = Null
                THEN /\ a_batches' = [a_batches EXCEPT ![b].results = results]
                     /\ UNCHANGED <<a_gyms, a_storage, a_started, isLoading, a_timerAt>>
                ELSE /\ a_gyms' = updatedGyms
                     /\ a_timerAt' = t
                     /\ a_storage' = Persisted(updatedGyms, dataMode, a_storage)
                     /\ IF AutoRefreshes(updatedGyms, loading, t)
                        THEN /\ a_started < MaxBatches
                             /\ a_batches' = Append(others, NewBatch(updatedGyms))
                             /\ a_started' = a_started + 1
                             \* setIsLoading(true) of the new call comes after
                             \* setIsLoading(false) only when both are batched
                             /\ isLoading' = autoBatch
                        ELSE /\ a_batches' = others
                             /\ isLoading' = FALSE
                             /\ UNCHANGED a_started
    /\ UNCHANGED <<ticks, silent, faults, otherA, resVars, autoBatch, dataMode, a_singles,
                   a_timers, a_adds>>

\* Documents the tiers may hold when the page is opened
LoadHistories == { <<DataPoint(T0, 78)>>, OldHistory(MAX_RETAIN) }
PrimaryAnswers ==
    [status : FailedReads, data : {<<>>}]
    \cup {[status |-> "ok", data |-> ViewOf(<<DefaultGym>>, [id \in {GYMS[1]} |-> h])] :
            h \in LoadHistories}
SnapshotAnswers ==
    [status : FailedReads, data : {NoDb}]
    \cup {[status |-> "ok", data |-> db] :
            db \in {NoDb} \cup {[id \in {GYMS[1]} |-> h] : h \in LoadHistories}}
StoredValues ==
    {Null, Some([wellFormed |-> FALSE, data |-> <<>>])}
    \cup {Some([wellFormed |-> TRUE, data |-> CloudData([id \in {GYMS[1]} |-> h])]) :
            h \in LoadHistories}

\* The page is opened: the init effect calls loadGyms()
AppOpened ==
    /\ r_pc = "primary"
    /\ r_result = [data |-> <<>>, source |-> "none"]
    /\ r_log = <<>>
    /\ a_gyms = <<>>
    /\ dataMode = "local"
    /\ isLoading = FALSE
    /\ a_batches = <<>>
    /\ a_singles = <<>>
    /\ a_timers = <<>>
    /\ a_timerAt = 0
    /\ a_started = 0
    /\ a_adds = 0

\* loadGyms() alone, for every answer of the three tiers
InitResolver ==
    /\ now = T0
    /\ ticks = 0
    /\ faults = 0
    /\ skews = 0
    /\ ChartsOff
    /\ silent = {}
    /\ file = MissingFile
    /\ UpdAt("off")
    /\ SrvAt("off")
    /\ net_primary \in PrimaryAnswers
    /\ net_snapshot \in SnapshotAnswers
    /\ a_storage \in StoredValues
    /\ autoBatch \in BOOLEAN
    /\ AppOpened

NextResolver == ResPrimary \/ ResSnapshot \/ ResCache \/ ResSeed \/ AppMount

SpecResolver == InitResolver /\ [][NextResolver]_vars

\* The tiers as the app finds them: one case for each tier that may win
AppScenarios ==
    { <<[status |-> "ok", data |-> ViewOf(<<DefaultGym>>, [id \in {GYMS[1]} |-> h])],
        [status |-> "unreachable", data |-> NoDb], Null>> : h \in LoadHistories }
    \cup { <<[status |-> "unreachable", data |-> <<>>],
             [status |-> "ok", data |-> [id \in {GYMS[1]} |-> OldHistory(MAX_RETAIN)]],
             Null>> }
    \cup { <<[status |-> "unreachable", data |-> <<>>],
             [status |-> "nonok", data |-> NoDb],
             st>> : st \in {Null, Some([wellFormed |-> TRUE,
                                        data |-> CloudData([id \in {GYMS[1]} |->
                                                    <<DataPoint(T0, 78)>>])])} }

InitApp ==
    /\ now = T0
    /\ ticks = 0
    /\ faults = 0
    /\ skews = 0
    /\ ChartsOff
    /\ silent = {}
    /\ file = MissingFile
    /\ UpdAt("off")
    /\ SrvAt("off")
    /\ \E sc \in AppScenarios :
         /\ net_primary = sc[1]
         /\ net_snapshot = sc[2]
         /\ a_storage = sc[3]
    /\ autoBatch \in BOOLEAN
    /\ AppOpened

NextApp ==
    \/ Tick
    \/ ResPrimary
    \/ ResSnapshot
    \/ ResCache
    \/ ResSeed
    \/ AppMount
    \/ AppInterval
    \/ AppRefreshClick
    \/ \E k \in 1..MaxAppAdds : AppTimeout(k)
    \/ AppAddGym
    \/ \E k \in 1..MaxAppAdds : AppSingleDone(k)
    \/ \E b \in 1..MaxBatches, g \in 1..(Len(DEFAULT_GYMS) + MaxAppAdds) : AppFetchDone(b, g)

SpecApp == InitApp /\ [][NextApp]_vars

\* The app while the clock may move on between the two Date.now() of a sample
InitClockSkew ==
    /\ now = T0
    /\ ticks = 0
    /\ faults = 0
    /\ skews = MaxSkews
    /\ ChartsOff
    /\ silent = {}
    /\ file = MissingFile
    /\ UpdAt("off")
    /\ SrvAt("off")
    /\ \E sc \in AppScenarios :
         /\ net_primary = sc[1]
         /\ net_snapshot = sc[2]
         /\ a_storage = sc[3]
    /\ autoBatch = TRUE
    /\ AppOpened

NextClockSkew ==
    \/ ResPrimary
    \/ ResSnapshot
    \/ ResCache
    \/ ResSeed
    \/ AppMount
    \/ AppRefreshClick
    \/ AppAddGym
    \/ \E k \in 1..MaxAppAdds : AppSingleDone(k)
    \/ \E b \in 1..MaxBatches, g \in 1..(Len(DEFAULT_GYMS) + MaxAppAdds) : AppFetchDone(b, g)

SpecClockSkew == InitClockSkew /\ [][NextClockSkew]_vars

----------------------------------------------------------------------------
(* The charts of the detail view: RecentActivityChart and DayAverageChart *)

\* getDay() of the epoch of this model, 20.06.2025 00:00 local time: a Friday
EPOCH_DAY == 5

\* data.slice(-20)
FALLBACK_POINTS == 20

\* new Date(timestamp).getDay(): 0 is Sunday (no change of the UTC offset
\* falls into the days modelled)
getDay(timestamp) == (EPOCH_DAY + (timestamp \div ONE_DAY)) % 7

\* toLocaleTimeString([], { hour: '2-digit', minute: '2-digit' }): <<hour, minute>>
toLocaleTimeString(timestamp) ==
    <<(timestamp % ONE_DAY) \div 3600000, ((timestamp % ONE_DAY) \div 60000) % 60>>

\* toLocaleDateString(): the day, counted from the epoch
toLocaleDateString(timestamp) == timestamp \div ONE_DAY

\* Math.round(sum / count) for count > 0: halves go up
MathRound(sum, count) == (2 * sum + count) \div (2 * count)

\* The memo of RecentActivityChart without the fallback to the last points
RecentWithoutFallback(data, t) ==
    LET recent == SelectSeq(data, LAMBDA d : d.timestamp > t - ONE_DAY)
    IN  [i \in 1..Len(recent) |->
            [time |-> toLocaleTimeString(recent[i].timestamp),
             visitors |-> recent[i].visitors,
             timestamp |-> recent[i].timestamp,
             date |-> toLocaleDateString(recent[i].timestamp)]]

\* The memo of RecentActivityChart, computed when Date.now() is t
RecentActivityChart(data, t) ==
    LET filtered == SelectSeq(data, LAMBDA d : d.timestamp > t - ONE_DAY)
        recent == IF Len(filtered) = 0 /\ Len(data) > 0
                  THEN SliceLast(data, FALLBACK_POINTS)
                  ELSE filtered
    IN  [i \in 1..Len(recent) |->
            [time |-> toLocaleTimeString(recent[i].timestamp),
             visitors |-> recent[i].visitors,
             timestamp |-> recent[i].timestamp,
             date |-> toLocaleDateString(recent[i].timestamp)]]

RECURSIVE SumVisitors(_)
SumVisitors(h) ==
    IF h = <<>> THEN 0 ELSE SumVisitors(SubSeq(h, 1, Len(h) - 1)) + h[Len(h)].visitors

days == <<"Sun", "Mon", "Tue", "Wed", "Thu", "Fri", "Sat">>

\* The memo of DayAverageChart with the buckets counted from Monday
DayAverageMondayFirst(data) ==
    [i \in 1..Len(days) |->
        LET ofDay == SelectSeq(data, LAMBDA d : (getDay(d.timestamp) + 6) % 7 = i - 1)
        IN  [day |-> days[i],
             avg |-> IF Len(ofDay) > 0 THEN MathRound(SumVisitors(ofDay), Len(ofDay)) ELSE 0]]

\* The memo of DayAverageChart: sums[i] and counts[i] are the sum and the number
\* of the samples of weekday i
DayAverageChart(data) ==
    [i \in 1..Len(days) |->
        LET ofDay == SelectSeq(data, LAMBDA d : getDay(d.timestamp) = i - 1)
        IN  [day |-> days[i],
             avg |-> IF Len(ofDay) > 0 THEN MathRound(SumVisitors(ofDay), Len(ofDay)) ELSE 0]]

\* When the detail view is opened
CT0 == T0 + 7 * ONE_DAY

\* n samples half an hour apart, the last one taken at CT0
HalfHourly(n) == [i \in 1..n |-> DataPoint(CT0 - (n - i) * REFRESH_PERIOD, 60 + i)]

\* One sample a weekday over the week before CT0, `off` after midnight
WeekHistory(off) == [i \in 1..7 |-> DataPoint(CT0 - (8 - i) * ONE_DAY + off, 10 * i + 1)]

\* The `data` props the charts are opened with: no sample, the seed series
\* (older than a day) whole and cut to 20 and to 3 samples, series reaching
\* back less and more than a day, a sample below zero, and one sample a weekday
ChartHistories ==
    { <<>>, seedHistory, SliceLast(seedHistory, FALLBACK_POINTS), SliceLast(seedHistory, 3),
      HalfHourly(3), HalfHourly(50),
      <<DataPoint(CT0 - 2 * ONE_DAY, -5), DataPoint(CT0 - 2 * ONE_DAY + 1, 2)>> }
    \cup { WeekHistory(off) : off \in {0, ONE_DAY \div 2, ONE_DAY - 1} }

\* The detail view renders: both memos are computed from the `data` prop
ChartRender ==
    /\ c_at = Null
    /\ c_recent' = RecentActivityChart(c_data, now)
    /\ c_dayAvg' = DayAverageChart(c_data)
    /\ c_at' = Some(now)
    /\ UNCHANGED <<envVars, file, updVars, srvVars, resVars, appVars, c_data>>

\* A refresh appends a sample to the history on display: `data` changed, the
\* memos are computed again
ChartNewData ==
    /\ c_at # Null
    /\ c_at[1] < now
    /\ \E v \in {0, 78} :
        /\ c_data' = Append(c_data, DataPoint(now, v))
        /\ c_recent' = RecentActivityChart(c_data', now)
        /\ c_dayAvg' = DayAverageChart(c_data')
    /\ c_at' = Some(now)
    /\ UNCHANGED <<envVars, file, updVars, srvVars, resVars, appVars>>

InitCharts ==
    /\ now = CT0
    /\ ticks = 0
    /\ faults = 0
    /\ skews = 0
    /\ silent = {}
    /\ file = MissingFile
    /\ UpdAt("off")
    /\ SrvAt("off")
    /\ AppOff
    /\ c_data \in ChartHistories
    /\ c_at = Null
    /\ c_recent = <<>>
    /\ c_dayAvg = <<>>

NextCharts == Tick \/ ChartRender \/ ChartNewData

SpecCharts == InitCharts /\ [][NextCharts]_vars

----------------------------------------------------------------------------
(* Any of the three deployments *)

Init == InitUpdater \/ InitService \/ InitApp

Next == NextUpdater \/ NextService \/ NextApp

Spec == Init /\ [][Next]_vars

----------------------------------------------------------------------------
(* Properties *)

\* The series a deployment holds, as the histories of a db, and the app's gyms
\* by position.
Sorted(h) == \A i \in 1..(Len(h) - 1) : h[i].timestamp <= h[i + 1].timestamp

\* From h to h2 no sample was accepted inside the dedup window of h's last one
DedupKept(h, h2) ==
    (h # <<>> /\ h2 # h) =>
        /\ h2 # <<>>
        /\ h2[Len(h2)].timestamp - h[Len(h)].timestamp >= DEDUP_WINDOW

\* C1: Dedup.  In every ingestion path (updater run, service fetchGymData,
\* app refreshAllGyms), a sample taken less than 60000 ms after the last
\* sample of its series is discarded: a step that changes a series moves its
\* last timestamp by at least the dedup window.
C1_DedupEveryPath ==
    [][ /\ \A id \in DOMAIN u_db : DedupKept(u_db[id], HistoryOf(u_db', id))
        /\ \A id \in DOMAIN s_db : DedupKept(s_db[id], HistoryOf(s_db', id))
        /\ \A k \in 1..Len(a_gyms) :
              k <= Len(a_gyms') => DedupKept(a_gyms[k].history, a_gyms'[k].history)
      ]_vars

\* C2: Retention bound.  In the updater, the service and the app, a step that
\* appends to a series leaves at most MAX_RETAIN samples in it.
C2_RetentionBound ==
    [][ /\ u_pc = "fetch" =>
              \A id \in DOMAIN u_db' :
                  u_db'[id] # HistoryOf(u_db, id) => Len(u_db'[id]) <= MAX_RETAIN
        /\ s_pc = "up" =>
              \A id \in DOMAIN s_db' :
                  s_db'[id] # HistoryOf(s_db, id) => Len(s_db'[id]) <= MAX_RETAIN
        /\ r_pc = "applied" =>
              \A k \in 1..Len(a_gyms') :
                  (k > Len(a_gyms) \/ a_gyms'[k].history # a_gyms[k].history)
                      => Len(a_gyms'[k].history) <= MAX_RETAIN
      ]_vars

\* C3: Reentrancy.  At most one batch is running at any time: a trigger that
\* arrives while a batch runs starts no second, overlapping batch.
C3_OneBatchAtATime == Len(s_jobs) <= 1 /\ Len(a_batches) <= 1

\* C4: Resolver tier order.  loadGyms returns 'server' whenever the primary
\* read succeeds, whatever the snapshot and the cache hold; 'cloud' when the
\* primary fails and the snapshot succeeds; 'local' when both fail; and no
\* lower tier is consulted once a higher tier has succeeded.
C4_TierOrder ==
    /\ r_pc \in {"done", "applied"} =>
          /\ net_primary.status = "ok" =>
                r_result = [data |-> net_primary.data, source |-> "server"]
          /\ (net_primary.status # "ok" /\ net_snapshot.status = "ok") =>
                r_result.source = "cloud"
          /\ (net_primary.status # "ok" /\ net_snapshot.status # "ok") =>
                r_result.source = "local"
    /\ \A i \in 1..Len(r_log) :
          /\ r_log[i] = "snapshot" => net_primary.status # "ok"
          /\ r_log[i] \in {"cache", "seed"} =>
                (net_primary.status # "ok" /\ net_snapshot.status # "ok")

\* C4, witness: the primary, the snapshot and the cache are all available and
\* loadGyms has returned the primary's data without consulting the other two.
C4_Witness ==
    /\ r_pc = "done"
    /\ net_primary.status = "ok"
    /\ net_snapshot.status = "ok"
    /\ a_storage # Null /\ a_storage[1].wellFormed
    /\ r_result.source = "server"
    /\ r_log = <<"primary">>

KeepsEntries(h, h2) ==
    \E d \in 0..Len(h) :
        /\ d > 0 => Len(h2) = MAX_RETAIN
        /\ Len(h2) >= Len(h) - d
        /\ \A i \in 1..(Len(h) - d) : h2[i] = h[d + i]

\* C6: History order.  After every step, overlapping batches and a single
\* sample racing a batch included, every series is sorted by timestamp and the
\* step has neither removed nor reordered a sample it held (the retention cap
\* may drop samples from the front).
C6_HistoryOrder ==
    [][ /\ \A id \in DOMAIN u_db' : Sorted(u_db'[id])
        /\ \A id \in DOMAIN u_db : KeepsEntries(u_db[id], HistoryOf(u_db', id))
        /\ \A id \in DOMAIN s_db' : Sorted(s_db'[id])
        /\ \A id \in DOMAIN s_db : KeepsEntries(s_db[id], HistoryOf(s_db', id))
        /\ \A k \in 1..Len(a_gyms') : Sorted(a_gyms'[k].history)
        /\ \A k \in 1..Len(a_gyms) :
              KeepsEntries(a_gyms[k].history,
                           IF k <= Len(a_gyms') THEN a_gyms'[k].history ELSE <<>>)
      ]_vars

\* C7: In every reachable state `current` of a series is the last sample of
\* its history, and absent when the history is empty: in what the service's
\* GET /api/gyms answers, in what loadGyms returns and in the app's gyms.
C7_CurrentIsLast ==
    /\ \A k \in 1..Len(SrvView) : SrvView[k].current = LastOf(SrvView[k].history)
    /\ \A k \in 1..Len(r_result.data) :
          r_result.data[k].current = LastOf(r_result.data[k].history)
    /\ \A k \in 1..Len(a_gyms) : a_gyms[k].current = LastOf(a_gyms[k].history)

\* C7, witness: a gym added at runtime has received its single sample, and a
\* gym loaded at startup has had a batch sample appended to a longer history.
C7_Witness ==
    /\ Len(a_gyms) = 2
    /\ a_singles = <<>>
    /\ a_adds = 1
    /\ a_gyms[2].current # Null
    /\ Len(a_gyms[2].history) = 1
    /\ Len(a_gyms[1].history) >= 2
    /\ a_gyms[1].lastUpdated > T0
    /\ a_gyms[1].current = Some(a_gyms[1].history[Len(a_gyms[1].history)])

\* C8: Failure isolation.  When the last fetch of a batch settles, the series
\* (history, current, lastUpdated) of every gym of the batch whose sample
\* failed is what it was before the step: the batch has left it unchanged.
\* In the service a fetch touches the history of its own gym only, and only
\* by appending.
C8_FailureIsolation ==
    [][ /\ \A b \in 1..Len(a_batches), g \in 1..(Len(DEFAULT_GYMS) + MaxAppAdds) :
              ( /\ AppFetchDone(b, g)
                /\ \A k \in 1..Len(a_batches[b].closure) :
                      k # g => a_batches[b].results[k] # Null ) =>
                  \A k \in 1..Len(a_batches[b].closure) :
                      LET result == IF k = g THEN a_gyms'[k] ELSE a_batches[b].results[k][1]
                      IN  (k <= Len(a_gyms) /\ result = a_batches[b].closure[k])
                              => a_gyms'[k] = a_gyms[k]
        /\ \A j \in 1..Len(s_jobs) :
              SrvFetchDone(j) =>
                  \A id \in DOMAIN s_db :
                      \/ s_db'[id] = s_db[id]
                      \/ /\ id = s_gyms[s_jobs[j].i].id
                         /\ s_db'[id] = Append(s_db[id], s_db'[id][Len(s_db'[id])])
      ]_vars

\* C9: Batch liveness.  Every batch that is running returns to idle in the
\* end, also when the endpoint of a gym never answers.
C9_BatchTerminates == (s_jobs # <<>>) ~> (s_jobs = <<>>)

\* C10: Sampler validation.  The samplers turn a negative count into a failure,
\* so no stored sample has visitors < 0: not in the updater's and the
\* service's db, not in the backing document, not in the app's gyms.
C10_NoNegativeStored ==
    /\ \A id \in DOMAIN u_db : \A i \in 1..Len(u_db[id]) : u_db[id][i].visitors >= 0
    /\ \A id \in DOMAIN s_db : \A i \in 1..Len(s_db[id]) : s_db[id][i].visitors >= 0
    /\ \A id \in DOMAIN file.doc :
          \A i \in 1..Len(file.doc[id]) : file.doc[id][i].visitors >= 0
    /\ \A k \in 1..Len(a_gyms) :
          \A i \in 1..Len(a_gyms[k].history) : a_gyms[k].history[i].visitors >= 0

\* C11: A malformed or unreadable backing document is loaded as an empty
\* mapping and is not fatal: the service's startup (initDB) goes on to serve
\* and to sample with an empty db, and the updater's run() goes on to fetch
\* with an empty db.
C11_MalformedLoadNotFatal ==
    [][ (file.exists /\ ~file.wellFormed) =>
            /\ SrvBoot => (s_pc' = "up" /\ s_db' = NoDb /\ s_jobs' # <<>>)
            /\ UpdLoad => (u_pc' = "fetch" /\ u_db' = NoDb)
      ]_vars

\* C12: Save ordering.  A fetch of a batch writes the backing document only
\* when it is the fetch of the last gym of the batch; the updater writes it
\* only in its save step, after its loop.
C12_SaveAfterBatch ==
    [][ /\ \A j \in 1..Len(s_jobs) :
              (SrvFetchDone(j) /\ file' # file) => s_jobs[j].i = Len(s_gyms)
        /\ (u_pc # "off" /\ file' # file) => u_pc = "save"
      ]_vars

\* C13: Adding a gym at runtime triggers exactly one sample, for the new gym
\* only, and no batch over the tracked gyms: an accepted POST /api/gyms and
\* handleAddGym each leave one more single fetch pending, the new gym's, and
\* neither start nor schedule a refresh of all gyms.
C13_AddSamplesOnce ==
    [][ /\ (SrvAddGym /\ s_status' = 200) =>
              /\ Len(s_singles') = Len(s_singles) + 1
              /\ s_singles'[Len(s_singles')] = s_gyms'[Len(s_gyms')]
              /\ s_jobs' = s_jobs
        /\ AppAddGym =>
              /\ dataMode # "server" =>       \* in server mode the service samples
                    /\ Len(a_singles') = Len(a_singles) + 1
                    /\ a_singles'[Len(a_singles')].id = ToString(now)
              /\ a_batches' = a_batches
              /\ a_timers' = a_timers
      ]_vars

\* C14: POST /api/gyms with a body that lacks a required field of the gym
\* config (id, name, or the endpoint's url) answers 400, tracks no new gym,
\* changes no history and triggers no sample.
C14_RejectsIncompleteConfig ==
    [][ SrvAddGym =>
          ( (Len(s_gyms') > Len(s_gyms) \/ s_status' # 400) =>
                LET newGym == s_gyms'[Len(s_gyms')]
                IN  /\ Len(s_gyms') = Len(s_gyms) + 1
                    /\ newGym.id # ""
                    /\ newGym.name # ""
                    /\ newGym.url # "" )
          /\ (s_status' = 400 =>
                (s_gyms' = s_gyms /\ s_db' = s_db /\ s_singles' = s_singles /\ s_jobs' = s_jobs))
      ]_vars

\* some gym of the list was last updated more than 5 minutes before t
OlderThanThreshold(gyms, t) ==
    \E k \in 1..Len(gyms) : t - gyms[k].lastUpdated > STALE_AFTER

\* C15: Startup staleness.  When the initial state is there (the app has
\* applied what loadGyms returned; the service has loaded its db), a batch
\* starts at once exactly when some tracked gym was last updated more than 5
\* minutes ago, and the end of a batch starts no further batch.
C15_StartupStaleness ==
    [][ /\ AppMount =>
              ((a_batches' # a_batches) <=> OlderThanThreshold(a_gyms', now))
        /\ (SrvBoot /\ s_pc' = "up") =>
              ((s_jobs' # s_jobs) <=> OlderThanThreshold(ViewOf(s_gyms', s_db'), now))
        /\ \A b \in 1..Len(a_batches), g \in 1..(Len(DEFAULT_GYMS) + MaxAppAdds) :
              AppFetchDone(b, g) => a_started' = a_started
      ]_vars

\* every sample of the histories of db is in the history of the same id in db2
HoldsAll(db, db2) ==
    \A id \in DOMAIN db :
        \A i \in 1..Len(db[id]) :
            \E j \in 1..Len(HistoryOf(db2, id)) : db2[id][j] = db[id][i]

\* C16: A failed write of the backing document is recoverable.  The step in
\* which the write fails leaves the process running with the accepted sample
\* in memory; a later write that succeeds writes the whole of the memory; and
\* the updater's next run still holds what the run before it had accepted.
C16_PersistFailureRecoverable ==
    [][ /\ (faults' < faults /\ s_pc # "off") =>
              (s_pc' = "up" /\ HoldsAll(s_db, s_db') /\ (s_pc = "up" => s_db' # s_db))
        /\ (s_pc' = "up" /\ faults' = faults /\ file' # file) => file' = FileOf(s_db')
        /\ UpdLoad => HoldsAll(u_db, u_db')
      ]_vars

\* The positions of the samples of data not older than a day when the clock reads t
WithinDay(data, t) == {k \in 1..Len(data) : t - data[k].timestamp < ONE_DAY}

\* The entry of the chart shows the sample d
ShowsSample(point, d) == point.visitors = d.visitors /\ point.timestamp = d.timestamp

C17_WitnessMixed ==
    /\ c_at # Null
    /\ WithinDay(c_data, c_at[1]) # {}
    /\ Cardinality(WithinDay(c_data, c_at[1])) < Len(c_data)
    /\ Len(c_recent) = Cardinality(WithinDay(c_data, c_at[1]))

\* The positions of the samples of data taken on weekday day (0 is Sunday)
OnWeekday(data, day) == {k \in 1..Len(data) : getDay(data[k].timestamp) = day}

OneSampleAWeekday(data) == \A day \in 0..6 : Cardinality(OnWeekday(data, day)) = 1

\* C18: the weekday average has exactly 7 buckets; a bucket with no sample
\* reports 0; for a history with exactly one sample per weekday each bucket
\* equals the visitors of the sample of its weekday.
C18_WeekdayAverage ==
    c_at # Null =>
        /\ Len(c_dayAvg) = 7
        /\ \A day \in 0..6 :
              /\ c_dayAvg[day + 1].day = days[day + 1]
              /\ OnWeekday(c_data, day) = {} => c_dayAvg[day + 1].avg = 0
              /\ OneSampleAWeekday(c_data) =>
                    \A k \in OnWeekday(c_data, day) : c_dayAvg[day + 1].avg = c_data[k].visitors

\* A history of one sample a weekday was rendered, each bucket with a value of its own
C18_Witness ==
    /\ c_at # Null
    /\ OneSampleAWeekday(c_data)
    /\ \A i, j \in 1..7 : i # j => c_dayAvg[i].avg # c_dayAvg[j].avg

\* An empty history was rendered
C18_WitnessEmpty ==
    /\ c_at # Null
    /\ c_data = <<>>
    /\ \A i \in 1..7 : c_dayAvg[i].avg = 0

\* The accept rule as stated: no last sample, or the sample is at least
\* 60000 ms later than the last one
AtLeastWindowApart(h, t) == Len(h) = 0 \/ t - h[Len(h)].timestamp >= DEDUP_WINDOW

\* C19: when the series has no last sample, or the sample is 60000 ms or more
\* later than the last one (exactly 60000 included), the sample taken becomes
\* the new last element of the history.
C19_AcceptRule ==
    [][ (UpdFetch /\ AtLeastWindowApart(HistoryOf(u_db, GYMS[u_i]), now)) =>
            \A resp \in Responses :
                LET visitors == fetchVisitors(resp)
                IN  (visitors # Null /\ u_db' = UpdStore(u_db, GYMS[u_i], visitors[1], now)) =>
                        LET h2 == HistoryOf(u_db', GYMS[u_i])
                        IN  /\ h2 # <<>>
                            /\ h2[Len(h2)] = DataPoint(now, visitors[1])
                            /\ Len(h2) > 1 =>
                                  h2[Len(h2) - 1] = HistoryOf(u_db, GYMS[u_i])[Len(HistoryOf(u_db, GYMS[u_i]))] ]_vars

\* The part of C19 away from the boundary: more than 60000 ms apart
C19_AcceptBeyondWindow ==
    [][ (UpdFetch /\ UpdAccepts(HistoryOf(u_db, GYMS[u_i]), now)) =>
            \A resp \in Responses :
                LET visitors == fetchVisitors(resp)
                IN  (visitors # Null /\ u_db' = UpdStore(u_db, GYMS[u_i], visitors[1], now)) =>
                        LET h2 == HistoryOf(u_db', GYMS[u_i])
                        IN  h2 # <<>> /\ h2[Len(h2)] = DataPoint(now, visitors[1]) ]_vars

\* The example of C19: after 78@T0, a sample taken 70000 ms later is the second of two
C19_ExampleReached ==
    /\ u_pc = "save"
    /\ Len(HistoryOf(u_db, GYMS[1])) = 2
    /\ HistoryOf(u_db, GYMS[1])[1] = DataPoint(T0, 78)
    /\ HistoryOf(u_db, GYMS[1])[2].timestamp = T0 + 70000

\* lastUpdated of every gym with a current sample is the timestamp of that sample
StampedBySample(gyms) ==
    \A k \in 1..Len(gyms) :
        gyms[k].current # Null => gyms[k].lastUpdated = gyms[k].current[1].timestamp

\* C20: after every accepted append, lastUpdated of the series is the timestamp
\* of the appended sample (lastUpdated = current.timestamp whenever current
\* exists), also when the clock moves on between taking and appending it.
C20_LastUpdatedIsSampleTime ==
    /\ StampedBySample(a_gyms)
    /\ \A b \in 1..Len(a_batches) : \A g \in 1..Len(a_batches[b].results) :
          a_batches[b].results[g] # Null => StampedBySample(a_batches[b].results[g])
    /\ StampedBySample(SrvView)

\* The part of C20 that is about what GET /api/gyms answers
C20_ViewStampedBySample == StampedBySample(SrvView)

\* The part of C20 that is about what loadGyms() returns
C20_LoadedStampedBySample == r_pc = "done" => StampedBySample(r_result.data)

\* A step of a batch or of an add operation of the app
BatchOrAddStep ==
    \/ AppAddGym
    \/ \E k \in 1..MaxAppAdds : AppSingleDone(k) \/ AppTimeout(k)
    \/ \E b \in 1..MaxBatches, g \in 1..(Len(DEFAULT_GYMS) + MaxAppAdds) : AppFetchDone(b, g)
    \/ AppInterval
    \/ AppRefreshClick

\* The part of C21 about the cache: localStorage is written only with the tag
\* 'local' and a gym tracked, and what is written is the gyms state; with the
\* tag 'server' or 'cloud' no step of a batch or of an add writes it
C21_CacheWrittenOnlyLocal ==
    [][ /\ a_storage' # a_storage =>
              /\ dataMode' = "local"
              /\ Len(a_gyms') > 0
              /\ a_storage' = Some([wellFormed |-> TRUE, data |-> a_gyms'])
        /\ (dataMode \in {"server", "cloud"} /\ BatchOrAddStep) => a_storage' = a_storage ]_vars

\* The part of C21 about the cache, for the steps of batches and adds only
C21_BatchAndAddWriteOnlyLocal ==
    [][ BatchOrAddStep =>
            /\ a_storage' # a_storage =>
                  /\ dataMode = "local"
                  /\ Len(a_gyms') > 0
                  /\ a_storage' = Some([wellFormed |-> TRUE, data |-> a_gyms'])
            /\ dataMode \in {"server", "cloud"} => a_storage' = a_storage ]_vars

\* C21: the local cache is written only while the origin tag is 'local' and a
\* gym is tracked; with the tag 'server' or 'cloud' no batch and no add writes
\* it; and an add does the same to the tracked gyms and their sampling under
\* every tag: the gym is appended to the list and one sample of it is started.
C21_OriginTagFrame ==
    [][ /\ a_storage' # a_storage =>
              /\ dataMode' = "local"
              /\ Len(a_gyms') > 0
              /\ a_storage' = Some([wellFormed |-> TRUE, data |-> a_gyms'])
        /\ (dataMode \in {"server", "cloud"} /\ BatchOrAddStep) => a_storage' = a_storage
        /\ AppAddGym =>
              /\ Len(a_gyms') = Len(a_gyms) + 1
              /\ a_gyms'[Len(a_gyms')].config.id = ToString(now)
              /\ Len(a_singles') = Len(a_singles) + 1
              /\ a_timers' = a_timers ]_vars

\* The app's part of C22: no two gyms of the `gyms` state have the same id
C22_AppIdsUnique ==
    \A i, j \in 1..Len(a_gyms) : a_gyms[i].config.id = a_gyms[j].config.id => i = j

\* C22: after any sequence of add operations no two tracked gyms have the
\* same id, in the service's `gyms` and in the app's `gyms` state, so no two
\* gyms append to the same history.
C22_TrackedIdsUnique ==
    /\ \A i, j \in 1..Len(s_gyms) : s_gyms[i].id = s_gyms[j].id => i = j
    /\ \A i, j \in 1..Len(a_gyms) : a_gyms[i].config.id = a_gyms[j].config.id => i = j

\* Every gym of gyms is a gym of gyms2
StillTracked(gyms, gyms2) ==
    \A k \in 1..Len(gyms) : \E j \in 1..Len(gyms2) : gyms2[j].config.id = gyms[k].config.id

\* Every sample gyms holds is held by the gym of the same id in gyms2
SamplesKept(gyms, gyms2) ==
    \A k \in 1..Len(gyms), j \in 1..Len(gyms2) :
        gyms2[j].config.id = gyms[k].config.id => KeepsEntries(gyms[k].history, gyms2[j].history)

\* No call of refreshAllGyms, no fetch of handleAddGym and no timer is pending
AppQuiet(batches, singles, timers) == batches = <<>> /\ singles = <<>> /\ timers = <<>>

\* The first part of C23: a step of a batch drops no gym from the list
C23_AddedGymKept ==
    [][ \A b \in 1..MaxBatches, g \in 1..(Len(DEFAULT_GYMS) + MaxAppAdds) :
            AppFetchDone(b, g) => StillTracked(a_gyms, a_gyms') ]_vars

\* The second part of C23: the step that completes the last operation in
\* flight drops no sample
C23_SamplesKeptWhenQuiet ==
    [][ (r_pc = "applied" /\ AppQuiet(a_batches', a_singles', a_timers')) =>
            SamplesKept(a_gyms, a_gyms') ]_vars

\* C23: a gym added by handleAddGym while a refreshAllGyms batch is in flight is
\* still in the list when that batch completes, and the samples the gyms hold
\* are all in their histories once every operation in flight has completed
\* (the retention cap may drop samples from the front).
C23_NoLostUpdate ==
    [][ /\ \A b \in 1..MaxBatches, g \in 1..(Len(DEFAULT_GYMS) + MaxAppAdds) :
              AppFetchDone(b, g) => StillTracked(a_gyms, a_gyms')
        /\ (r_pc = "applied" /\ AppQuiet(a_batches', a_singles', a_timers')) =>
              SamplesKept(a_gyms, a_gyms') ]_vars

\* The step is the completion of a fetch of a batch after which a gym is
\* still stale: without a current sample, or last updated over 5 minutes ago
FetchDoneStillStale ==
    /\ \E b \in 1..MaxBatches, g \in 1..(Len(DEFAULT_GYMS) + MaxAppAdds) : AppFetchDone(b, g)
    /\ IsStale(a_gyms', now')

\* The steps that may start a batch: the startup check, the periodic timer,
\* the refresh button, and the operations of an add
MayStartBatch ==
    \/ AppMount
    \/ AppInterval
    \/ AppRefreshClick
    \/ AppAddGym
    \/ \E k \in 1..MaxAppAdds : AppTimeout(k) \/ AppSingleDone(k)

\* C24 where the updates of one continuation are rendered one by one
C24_NoStormUnbatched ==
    [][ (~autoBatch /\ r_pc = "applied" /\ a_started' > a_started) => MayStartBatch ]_vars

\* C24: no refresh storm.  When a gym stays stale because its sampling fails,
\* the completion of a batch does not itself start another batch: a batch is
\* started by the startup check, the periodic timer, the refresh button or an
\* add only, so without a request at most one staleness-triggered batch runs
\* between two ticks of the timer.
C24_NoRefreshStorm ==
    [][ /\ FetchDoneStillStale => a_started' = a_started
        /\ (r_pc = "applied" /\ a_started' > a_started) => MayStartBatch ]_vars

====
